---- MODULE Spec2Model ----
(***************************************************************************)
(* DRACOON Commander (dccmd): the commands of src/dccmd/__init__.py as a    *)
(* state machine, one run of one command per behaviour.  The coroutine      *)
(* upload._upload is modelled step by step; the components it awaits        *)
(* (create_folder_struct, bulk_upload, distribute_missing_keys) live in     *)
(* dccmd.main.upload and dccmd.main.crypto.keys and are modelled from their *)
(* written contract.  mkdir, mkroom, rm, ls and download follow their       *)
(* coroutines in the same file.                                             *)
(***************************************************************************)
EXTENDS Integers, Sequences, FiniteSets, TLC

\* ------------------------------------------------------------------ bounds
\* number of local directories below the source root (walk order 1..NumDirs)
NumDirs == 2
\* number of local files of the uploaded tree
NumFiles == 3
\* number of members of the destination room
NumUsers == 2
\* --velocity is an unvalidated int option; the model feeds 1..MaxVelocity
MaxVelocity == 4
\* ls: the container holds up to MaxPages full pages, one child more or less
MaxPages == 2
\* ls: children returned by one get_nodes call, and the threshold of line 604
PageSize == 500

\* ------------------------------------------------------------- vocabulary
NodeTypes == {"room", "folder", "file"}
\* the value of node_info before line 122 has run
Unresolved ==
    [id |-> 0, type |-> "unresolved", isEncrypted |-> FALSE, authParentId |-> 0]
\* get_node_from_path returning None
None == [id |-> 0, type |-> "none", isEncrypted |-> FALSE, authParentId |-> 0]
\* nodes get_node_from_path can resolve the target path to
TargetNodes ==
    {[id |-> 2, type |-> t, isEncrypted |-> e, authParentId |-> 1] :
        t \in NodeTypes, e \in BOOLEAN}
\* the three documented velocity levels (1: slow, 2: normal, 3: fast)
Levels == {1, 2, 3}
Dirs == 1..NumDirs
Files == 1..NumFiles
Users == 1..NumUsers
\* file names "a.txt", "a (1).txt", "a (2).txt", ... as their numeric suffix
Names == 0..(NumFiles + 1)
\* the typer commands of the app
Commands == {"upload", "mkdir", "mkroom", "rm", "ls", "download"}
\* ls: the totals nodes.range.total is drawn from (around each page border)
Totals ==
    {t \in 0..(MaxPages * PageSize + 1) :
        \E k \in 0..MaxPages : t \in {k * PageSize - 1, k * PageSize, k * PageSize + 1}}

VARIABLES
    \* command line (the typer command and its options)
    cmd, overwrite, auto_rename, recursive, velocity,
    \* upload._upload
    pc, status, session, node_info, is_folder, is_file_path,
    resolution_strategy, distrib_node_id, calls,
    \* create_folder_struct
    structPhase, remoteDir, pathMap, createdDirs,
    \* bulk_upload
    bulkPhase, limit, taskState, finalName, reserved, remote, preExisting,
    overwritten, batchResults,
    \* distribute_missing_keys
    keyPhase, hasKey, equipped, failedUsers,
    \* mkdir, mkroom, rm, ls, download
    parent_id, total, items, pending, show_all, printed, success_msg

argVars == <<cmd, overwrite, auto_rename, recursive, velocity>>
nodeVars == <<parent_id, total, items, pending, show_all, printed, success_msg>>
cmdVars == <<pc, status, session, node_info, is_folder, is_file_path,
             resolution_strategy, distrib_node_id, calls>>
structVars == <<structPhase, remoteDir, pathMap, createdDirs>>
bulkVars == <<bulkPhase, limit, taskState, finalName, reserved, remote,
              preExisting, overwritten, batchResults>>
keyVars == <<keyPhase, hasKey, equipped, failedUsers>>
vars == <<argVars, cmdVars, structVars, bulkVars, keyVars, nodeVars>>

\* one entry of the log of calls the command makes to its collaborators
Call(op, strategy, v, room) ==
    [op |-> op, strategy |-> strategy, velocity |-> v, room |-> room]

Ops(log) == {log[i].op : i \in 1..Len(log)}

\* ------------------------------------------------------------------- Init
Init ==
    /\ cmd \in Commands
    /\ overwrite \in (IF cmd = "upload" THEN BOOLEAN ELSE {FALSE})
    /\ auto_rename \in (IF cmd = "upload" THEN BOOLEAN ELSE {FALSE})
    /\ recursive \in (IF cmd \in {"upload", "rm"} THEN BOOLEAN ELSE {FALSE})
    /\ velocity \in (IF cmd = "upload" THEN 1..MaxVelocity ELSE {2})
    /\ pc = (IF cmd = "upload" THEN "init" ELSE "open")
    /\ parent_id = 0
    /\ total = 0
    /\ items = <<>>
    /\ pending = <<>>
    /\ show_all = "unasked"
    /\ printed = <<>>
    /\ success_msg = FALSE
    /\ status = "running"
    /\ session = "none"
    /\ node_info = Unresolved
    /\ is_folder = FALSE
    /\ is_file_path = FALSE
    /\ resolution_strategy = "unset"
    /\ distrib_node_id = <<>>
    /\ calls = <<>>
    /\ structPhase = "idle"
    /\ remoteDir = [d \in Dirs |-> "absent"]
    /\ pathMap = [d \in Dirs |-> "pending"]
    /\ createdDirs = {}
    /\ bulkPhase = "idle"
    /\ limit = 0
    /\ taskState = [f \in Files |-> "New"]
    /\ finalName = [f \in Files |-> 0]
    /\ reserved = {}
    /\ remote = {}
    /\ preExisting = {}
    /\ overwritten = {}
    /\ batchResults = <<>>
    /\ keyPhase = "idle"
    /\ hasKey = {}
    /\ equipped = {}
    /\ failedUsers = {}

\* ---------------------------------------------------------- upload._upload
\* lines 110-117: get authenticated DRACOON instance
InitDracoon ==
    /\ pc = "init"
    /\ session' = "open"
    /\ pc' = "get_node"
    /\ UNCHANGED <<argVars, nodeVars, status, node_info, is_folder, is_file_path,
                   resolution_strategy, distrib_node_id, calls,
                   structVars, bulkVars, keyVars>>

\* GetNodeFromPath with the `sys.exit(1)` of line 126 left out
GetNodeFromPathNoExit ==
    /\ pc = "get_node"
    /\ \E n \in TargetNodes \cup {None} : node_info' = n
    /\ pc' = "init_keypair"
    /\ UNCHANGED <<argVars, nodeVars, status, session, is_folder, is_file_path,
                   resolution_strategy, distrib_node_id, calls,
                   structVars, bulkVars, keyVars>>

\* lines 119-126: resolve the target path; an unresolved path exits with 1
GetNodeFromPath ==
    /\ pc = "get_node"
    /\ \E n \in TargetNodes \cup {None} :
        /\ node_info' = n
        /\ IF n = None
              THEN pc' = "exit" /\ status' = "exit1"
              ELSE pc' = "init_keypair" /\ status' = status
    /\ UNCHANGED <<argVars, nodeVars, session, is_folder, is_file_path,
                   resolution_strategy, distrib_node_id, calls,
                   structVars, bulkVars, keyVars>>

\* lines 128-133: an encrypted target needs the user's keypair
InitKeypair ==
    /\ pc = "init_keypair"
    /\ calls' = IF node_info.isEncrypted
                   THEN Append(calls, Call("init_keypair", "-", 0, <<>>))
                   ELSE calls
    /\ pc' = "probe"
    /\ UNCHANGED <<argVars, nodeVars, status, session, node_info, is_folder,
                   is_file_path, resolution_strategy, distrib_node_id,
                   structVars, bulkVars, keyVars>>

\* lines 135-136: is_directory / is_file on the local source path
ProbeSource ==
    /\ pc = "probe"
    /\ \E kind \in {"dir", "file", "other"} :
        /\ is_folder' = (kind = "dir")
        /\ is_file_path' = (kind = "file")
    /\ pc' = "strategy"
    /\ UNCHANGED <<argVars, nodeVars, status, session, node_info,
                   resolution_strategy, distrib_node_id, calls,
                   structVars, bulkVars, keyVars>>

\* ResolutionStrategy with the `if auto_rename:` of lines 151-152 left out
ResolutionStrategyNoRename(ow, ar) == IF ow THEN "overwrite" ELSE "fail"

\* lines 138-152 without the exit: the strategy the flags select
ResolutionStrategy(ow, ar) ==
    IF ar THEN "autorename" ELSE IF ow THEN "overwrite" ELSE "fail"

\* lines 138-152: both flags together are a usage error (exit 1)
ResolveStrategy ==
    /\ pc = "strategy"
    /\ IF overwrite /\ auto_rename
          THEN /\ resolution_strategy' = "overwrite"
               /\ pc' = "exit"
               /\ status' = "exit1"
          ELSE /\ resolution_strategy' = ResolutionStrategy(overwrite, auto_rename)
               /\ pc' = "transfer"
               /\ status' = status
    /\ UNCHANGED <<argVars, nodeVars, session, node_info, is_folder, is_file_path,
                   distrib_node_id, calls, structVars, bulkVars, keyVars>>

\* lines 154-160: a directory without -r only prints an error and goes on
FolderWithoutRecursive ==
    /\ pc = "transfer"
    /\ is_folder /\ ~recursive
    /\ pc' = "distrib_id"
    /\ UNCHANGED <<argVars, nodeVars, status, session, node_info, is_folder,
                   is_file_path, resolution_strategy, distrib_node_id, calls,
                   structVars, bulkVars, keyVars>>

\* the local tree: a chain of nested directories in walk order, each inside
\* the one before it (docs, docs/img, ...); 0 is the source root
ParentOf(d) == d - 1

\* what the remote side already holds at the directories' paths: a Folder, a
\* File of that name, or nothing; nothing exists below what is no Folder,
\* and nothing exists below a target that is itself a File
RemoteDirStates(target) ==
    {r \in [Dirs -> {"absent", "folder", "file"}] :
        \A d \in Dirs :
            /\ (ParentOf(d) # 0 /\ r[ParentOf(d)] # "folder") => r[d] = "absent"
            /\ target.type = "file" => r[d] = "absent"}

\* what the target already holds under the file name "a.txt"
RemoteFileStates(target) ==
    IF target.type = "file"
       THEN {{}}
       ELSE {{}, {<<0, 0, "file">>}, {<<0, 0, "folder">>}}

\* lines 161-165: the recursive upload starts with create_folder_struct
CallCreateFolderStruct ==
    /\ pc = "transfer"
    /\ is_folder /\ recursive
    /\ calls' = Append(calls, Call("create_folder_struct", "-", 0, <<>>))
    /\ structPhase' = "running"
    /\ \E r \in RemoteDirStates(node_info) : remoteDir' = r
    /\ \E fs \in RemoteFileStates(node_info) :
        /\ remote' = fs
        /\ preExisting' = fs
    /\ pc' = "await_struct"
    /\ UNCHANGED <<argVars, nodeVars, status, session, node_info, is_folder,
                   is_file_path, resolution_strategy, distrib_node_id,
                   pathMap, createdDirs, bulkPhase, limit, taskState,
                   finalName, reserved, overwritten, batchResults, keyVars>>

\* ----------------------------------------------------- create_folder_struct
\* the remote parent of directory d is in place: the target itself, or a
\* directory whose own replication ended with a Folder
ParentReady(d) ==
    IF ParentOf(d) = 0 THEN TRUE ELSE pathMap[ParentOf(d)] = "ok"

ParentResolved(d) ==
    IF ParentOf(d) = 0 THEN TRUE ELSE pathMap[ParentOf(d)] # "pending"

\* one Directory entry: reuse an existing Folder, create a missing one, and
\* record a structural conflict for the branch when a File holds the name,
\* the parent branch failed, or the create call is refused (File target)
ReplicateDir(d) ==
    /\ structPhase = "running"
    /\ pathMap[d] = "pending"
    /\ ParentResolved(d)
    /\ IF ~ParentReady(d) \/ remoteDir[d] = "file" \/ node_info.type = "file"
          THEN /\ pathMap' = [pathMap EXCEPT ![d] = "conflict"]
               /\ UNCHANGED <<remoteDir, createdDirs>>
          ELSE /\ pathMap' = [pathMap EXCEPT ![d] = "ok"]
               /\ remoteDir' = [remoteDir EXCEPT ![d] = "folder"]
               /\ createdDirs' = IF remoteDir[d] = "absent"
                                    THEN createdDirs \cup {d}
                                    ELSE createdDirs
    /\ UNCHANGED <<argVars, nodeVars, cmdVars, structPhase, bulkVars, keyVars>>

\* create_folder_struct returns once every Directory entry has an outcome
CreateFolderStructReturn ==
    /\ structPhase = "running"
    /\ \A d \in Dirs : pathMap[d] # "pending"
    /\ structPhase' = "done"
    /\ UNCHANGED <<argVars, nodeVars, cmdVars, remoteDir, pathMap,
                   createdDirs, bulkVars, keyVars>>

\* ------------------------------------------------------------- bulk_upload
\* the local files: the first two lie in the source root, the others one per
\* directory from the deepest one upwards
FileDir(f) ==
    IF f <= 2 THEN 0
    ELSE IF NumDirs - (f - 3) > 0 THEN NumDirs - (f - 3) ELSE 0

\* files of one local directory have different names
FileName(f) == Cardinality({g \in 1..(f - 1) : FileDir(g) = FileDir(f)})

\* the node a file's target parent path resolves to exists remotely
ParentExists(d) == IF d = 0 THEN TRUE ELSE remoteDir[d] = "folder"

\* the concurrency limit a velocity maps to; a value outside the three
\* levels is mapped to the limit of one of them
VelocityLimits(v) == IF v \in Levels THEN {v} ELSE Levels

\* the TransferTasks of the batch: files whose parent path does not resolve
\* to a node are recorded as skipped
BuildTasks ==
    [f \in Files |-> IF ParentExists(FileDir(f)) THEN "Queued" ELSE "Skipped"]

\* StructResolved with the `await` of line 163 left out: the coroutine is
\* started and bulk_upload is called at once
StructResolvedNoAwait == structPhase \in {"running", "done"}

\* line 163: `await create_folder_struct(...)` has resolved
StructResolved == structPhase = "done"

\* lines 166-172: bulk_upload is called with the strategy and the velocity
CallBulkUpload ==
    /\ pc = "await_struct"
    /\ StructResolved
    /\ calls' = Append(calls,
                       Call("bulk_upload", resolution_strategy, velocity, <<>>))
    /\ bulkPhase' = "running"
    /\ \E l \in VelocityLimits(velocity) : limit' = l
    /\ taskState' = BuildTasks
    /\ pc' = "await_bulk"
    /\ UNCHANGED <<argVars, nodeVars, status, session, node_info, is_folder,
                   is_file_path, resolution_strategy, distrib_node_id,
                   structVars, finalName, reserved, remote, preExisting,
                   overwritten, batchResults, keyVars>>

InFlight == {f \in Files : taskState[f] = "InFlight"}

\* the type of the node holding name k under directory d, if any
Occupant(d, k) ==
    IF <<d, k, "file">> \in remote THEN "file"
    ELSE IF <<d, k, "folder">> \in remote THEN "folder"
    ELSE "absent"

\* ConflictResolutionPolicy: (strategy, existing node) -> action
Policy(strategy, existing) ==
    IF existing = "absent" THEN "create"
    ELSE IF strategy = "fail" THEN "reject"
    ELSE IF strategy = "overwrite"
         THEN (IF existing = "file" THEN "replace" ELSE "reject")
    ELSE "rename"

\* Seen validated against the remote state only, without the reservations
SeenRemoteOnly(d, k) == Occupant(d, k)

\* what the policy sees under name k: the node holding it, else a
\* reservation made by a task of this batch
Seen(d, k) ==
    IF Occupant(d, k) # "absent" THEN Occupant(d, k)
    ELSE IF <<d, k>> \in reserved THEN "reserved"
    ELSE "absent"

\* autorename: the numeric suffix is incremented until the name is unused
AutoName(d, k) ==
    CHOOSE j \in Names :
        /\ j >= k
        /\ Seen(d, j) = "absent"
        /\ \A i \in Names : (i >= k /\ i < j) => Seen(d, i) # "absent"

\* a queued task is dispatched while fewer than `limit` are in flight; the
\* policy rejects it without a transfer or fixes the name it is sent under,
\* which is reserved in the same step
Dispatch(f) ==
    /\ bulkPhase = "running"
    /\ taskState[f] = "Queued"
    /\ Cardinality(InFlight) < limit
    /\ LET d == FileDir(f)
           action == Policy(resolution_strategy, Seen(d, FileName(f)))
           name == IF action = "rename" THEN AutoName(d, FileName(f))
                   ELSE FileName(f)
       IN  IF action = "reject"
              THEN /\ taskState' = [taskState EXCEPT ![f] = "Failed"]
                   /\ UNCHANGED <<finalName, reserved>>
              ELSE /\ taskState' = [taskState EXCEPT ![f] = "InFlight"]
                   /\ finalName' = [finalName EXCEPT ![f] = name]
                   /\ reserved' = reserved \cup {<<d, name>>}
    /\ UNCHANGED <<argVars, nodeVars, cmdVars, structVars, bulkPhase, limit, remote,
                   preExisting, overwritten, batchResults, keyVars>>

\* uploadFile returns: the file is persisted under its final name
Complete(f) ==
    /\ bulkPhase = "running"
    /\ taskState[f] = "InFlight"
    /\ node_info.type # "file"
    /\ LET d == FileDir(f)
           k == finalName[f]
       IN  /\ remote' = remote \cup {<<d, k, "file">>}
           /\ overwritten' = IF Occupant(d, k) = "file"
                                THEN overwritten \cup {<<d, k>>}
                                ELSE overwritten
    /\ taskState' = [taskState EXCEPT ![f] = "Completed"]
    /\ UNCHANGED <<argVars, nodeVars, cmdVars, structVars, bulkPhase, limit, finalName,
                   reserved, preExisting, batchResults, keyVars>>

\* Fail with the failure ending the whole batch: the result is emitted while
\* other tasks are still queued or in flight
FailAbortsBatch(f) ==
    /\ bulkPhase = "running"
    /\ taskState[f] = "InFlight"
    /\ taskState' = [taskState EXCEPT ![f] = "Failed"]
    /\ batchResults' = Append(batchResults,
           [succeeded |-> Cardinality({g \in Files : taskState[g] = "Completed"}),
            failed |-> Cardinality({g \in Files : taskState[g] = "Failed"}) + 1,
            skipped |-> Cardinality({g \in Files : taskState[g] = "Skipped"})])
    /\ bulkPhase' = "done"
    /\ UNCHANGED <<argVars, nodeVars, cmdVars, structVars, limit, finalName, reserved,
                   remote, preExisting, overwritten, keyVars>>

\* uploadFile fails (permission, path, transport): only this task fails
Fail(f) ==
    /\ bulkPhase = "running"
    /\ taskState[f] = "InFlight"
    /\ taskState' = [taskState EXCEPT ![f] = "Failed"]
    /\ UNCHANGED <<argVars, nodeVars, cmdVars, structVars, bulkPhase, limit, finalName,
                   reserved, remote, preExisting, overwritten, batchResults,
                   keyVars>>

Count(st) == Cardinality({f \in Files : taskState[f] = st})

Resolved(f) == taskState[f] \in {"Completed", "Failed", "Skipped"}

\* the aggregate BatchResult is emitted when every task has resolved
EmitBatchResult ==
    /\ bulkPhase = "running"
    /\ \A f \in Files : Resolved(f)
    /\ batchResults' = Append(batchResults,
                              [succeeded |-> Count("Completed"),
                               failed |-> Count("Failed"),
                               skipped |-> Count("Skipped")])
    /\ bulkPhase' = "done"
    /\ UNCHANGED <<argVars, nodeVars, cmdVars, structVars, limit, taskState, finalName,
                   reserved, remote, preExisting, overwritten, keyVars>>

\* lines 173-174: bulk_upload has returned, "Folder ... uploaded." is printed.
\* Its result is not kept, and the working state of the transfer (the path
\* map, the tasks, the reservation table, the listing under the target)
\* is read by no later step of the command: it is dropped here
FolderUploaded ==
    /\ pc = "await_bulk"
    /\ bulkPhase = "done"
    /\ pc' = "distrib_id"
    /\ structPhase' = "returned"
    /\ remoteDir' = [d \in Dirs |-> "absent"]
    /\ pathMap' = [d \in Dirs |-> "pending"]
    /\ createdDirs' = {}
    /\ bulkPhase' = "returned"
    /\ limit' = 0
    /\ taskState' = [f \in Files |-> "New"]
    /\ finalName' = [f \in Files |-> 0]
    /\ reserved' = {}
    /\ remote' = {}
    /\ preExisting' = {}
    /\ overwritten' = {}
    /\ batchResults' = <<>>
    /\ UNCHANGED <<argVars, nodeVars, status, session, node_info, is_folder,
                   is_file_path, resolution_strategy, distrib_node_id, calls,
                   keyVars>>

\* lines 175-215: a single file goes through dracoon.upload; each handled
\* error logs out and exits with 2, and a File target takes no upload
UploadFile ==
    /\ pc = "transfer"
    /\ ~is_folder /\ is_file_path
    /\ \E ok \in {b \in BOOLEAN : b => node_info.type # "file"} :
        IF ok
           THEN /\ calls' = Append(calls,
                          Call("upload", resolution_strategy, 0, <<>>))
                /\ pc' = "distrib_id"
                /\ UNCHANGED <<status, session>>
           ELSE /\ calls' = Append(Append(calls,
                          Call("upload", resolution_strategy, 0, <<>>)),
                          Call("logout", "-", 0, <<>>))
                /\ session' = "closed"
                /\ pc' = "exit"
                /\ status' = "exit2"
    /\ UNCHANGED <<argVars, nodeVars, node_info, is_folder, is_file_path,
                   resolution_strategy, distrib_node_id, structVars, bulkVars,
                   keyVars>>

\* lines 216-220: a source that is neither file nor directory only prints
\* an error and goes on
InvalidSource ==
    /\ pc = "transfer"
    /\ ~is_folder /\ ~is_file_path
    /\ pc' = "distrib_id"
    /\ UNCHANGED <<argVars, nodeVars, status, session, node_info, is_folder,
                   is_file_path, resolution_strategy, distrib_node_id, calls,
                   structVars, bulkVars, keyVars>>

\* lines 222-226: the room whose keys are distributed; neither `if` assigns
\* the variable for a node of type file
DistribNodeId(n) ==
    IF n.type = "room" THEN <<n.id>>
    ELSE IF n.type = "folder" THEN <<n.authParentId>>
    ELSE <<>>

AssignDistribNode ==
    /\ pc = "distrib_id"
    /\ distrib_node_id' = DistribNodeId(node_info)
    /\ pc' = "distribute"
    /\ UNCHANGED <<argVars, nodeVars, status, session, node_info, is_folder,
                   is_file_path, resolution_strategy, calls, structVars,
                   bulkVars, keyVars>>

\* line 228: the destination is not encrypted, nothing to distribute
SkipDistribution ==
    /\ pc = "distribute"
    /\ ~node_info.isEncrypted
    /\ pc' = "logout"
    /\ UNCHANGED <<argVars, nodeVars, status, session, node_info, is_folder,
                   is_file_path, resolution_strategy, distrib_node_id, calls,
                   structVars, bulkVars, keyVars>>

\* line 229 with distrib_node_id never assigned: UnboundLocalError ends the
\* run before distribute_missing_keys is entered
DistribNodeUnbound ==
    /\ pc = "distribute"
    /\ node_info.isEncrypted
    /\ distrib_node_id = <<>>
    /\ pc' = "exit"
    /\ status' = "crash"
    /\ UNCHANGED <<argVars, nodeVars, session, node_info, is_folder, is_file_path,
                   resolution_strategy, distrib_node_id, calls, structVars,
                   bulkVars, keyVars>>

\* lines 228-229: distribute_missing_keys(room_id=distrib_node_id); the
\* engine first learns which room members already hold a key record
CallDistributeMissingKeys ==
    /\ pc = "distribute"
    /\ node_info.isEncrypted
    /\ distrib_node_id # <<>>
    /\ calls' = Append(calls,
                       Call("distribute_missing_keys", "-", 0, distrib_node_id))
    /\ keyPhase' = "running"
    /\ \E hk \in SUBSET Users : hasKey' = hk
    /\ pc' = "await_keys"
    /\ UNCHANGED <<argVars, nodeVars, status, session, node_info, is_folder,
                   is_file_path, resolution_strategy, distrib_node_id,
                   structVars, bulkVars, equipped, failedUsers>>

\* -------------------------------------------------- distribute_missing_keys
Missing == Users \ hasKey

Attempted == equipped \cup failedUsers

\* the room key is encrypted for user u and the record is persisted
EquipUser(u) ==
    /\ keyPhase = "running"
    /\ u \in Missing \ Attempted
    /\ equipped' = equipped \cup {u}
    /\ UNCHANGED <<argVars, nodeVars, cmdVars, structVars, bulkVars, keyPhase, hasKey,
                   failedUsers>>

\* FailUser with the failure ending the iteration over the missing users
FailUserAborts(u) ==
    /\ keyPhase = "running"
    /\ u \in Missing \ Attempted
    /\ failedUsers' = failedUsers \cup {u}
    /\ keyPhase' = "done"
    /\ UNCHANGED <<argVars, nodeVars, cmdVars, structVars, bulkVars, hasKey, equipped>>

\* fetching the public key, encrypting or persisting fails for user u
FailUser(u) ==
    /\ keyPhase = "running"
    /\ u \in Missing \ Attempted
    /\ failedUsers' = failedUsers \cup {u}
    /\ UNCHANGED <<argVars, nodeVars, cmdVars, structVars, bulkVars, keyPhase, hasKey,
                   equipped>>

\* the KeyDistributionResult is returned once every missing user was tried
KeyDistributionReturn ==
    /\ keyPhase = "running"
    /\ Missing \subseteq Attempted
    /\ keyPhase' = "done"
    /\ UNCHANGED <<argVars, nodeVars, cmdVars, structVars, bulkVars, hasKey, equipped,
                   failedUsers>>

\* line 229: `await distribute_missing_keys(...)` has resolved
KeysDistributed ==
    /\ pc = "await_keys"
    /\ keyPhase = "done"
    /\ pc' = "logout"
    /\ UNCHANGED <<argVars, nodeVars, status, session, node_info, is_folder,
                   is_file_path, resolution_strategy, distrib_node_id, calls,
                   structVars, bulkVars, keyVars>>

\* line 231: logout, and the command ends with status 0
Logout ==
    /\ pc = "logout"
    /\ calls' = Append(calls, Call("logout", "-", 0, <<>>))
    /\ session' = "closed"
    /\ pc' = "exit"
    /\ status' = "exit0"
    /\ UNCHANGED <<argVars, nodeVars, node_info, is_folder, is_file_path,
                   resolution_strategy, distrib_node_id, structVars, bulkVars,
                   keyVars>>

\* --------------------------------------- mkdir, mkroom, rm, ls, download
\* one entry of the call log of these commands
NodeCall(op, node, offset, inherit) ==
    [op |-> op, node |-> node, offset |-> offset, inherit_perms |-> inherit]

LogoutCall == NodeCall("logout", 0, 0, FALSE)

\* lines 259-266, 334-341, 437-444, 542-549, 692-699: init_dracoon
OpenSession ==
    /\ pc = "open"
    /\ session' = "open"
    /\ pc' = "resolve"
    /\ UNCHANGED <<argVars, nodeVars, status, node_info, is_folder,
                   is_file_path, resolution_strategy, distrib_node_id, calls,
                   structVars, bulkVars, keyVars>>

\* lines 269, 344: parse_new_path raises for a path without a parent; no
\* handler catches it, the run ends with the traceback
PathParseError ==
    /\ pc = "resolve"
    /\ cmd \in {"mkdir", "mkroom"}
    /\ pc' = "exit"
    /\ status' = "crash"
    /\ UNCHANGED <<argVars, nodeVars, session, node_info, is_folder,
                   is_file_path, resolution_strategy, distrib_node_id, calls,
                   structVars, bulkVars, keyVars>>

\* ParentRefused with the room check of lines 354-359 left out
ParentRefusedOnlyNone(c, n) == n = None

\* lines 275, 350, 354: the parent the new node cannot be created under
ParentRefused(c, n) == n = None \/ (c = "mkroom" /\ n.type # "room")

\* lines 268-278 and 343-359: resolve the parent; a refused parent logs
\* out and exits with 1
ResolveParent ==
    /\ pc = "resolve"
    /\ cmd \in {"mkdir", "mkroom"}
    /\ \E n \in TargetNodes \cup {None} :
        /\ node_info' = n
        /\ IF ParentRefused(cmd, n)
              THEN /\ calls' = Append(calls, LogoutCall)
                   /\ session' = "closed"
                   /\ pc' = "exit"
                   /\ status' = "exit1"
              ELSE /\ pc' = "create"
                   /\ UNCHANGED <<calls, session, status>>
    /\ UNCHANGED <<argVars, nodeVars, is_folder, is_file_path,
                   resolution_strategy, distrib_node_id, structVars, bulkVars,
                   keyVars>>

\* lines 280-306: create_folder under the parent; every handled error logs
\* out and exits with 1
CreateFolder ==
    /\ pc = "create"
    /\ cmd = "mkdir"
    /\ \E res \in {"ok", "HTTPConflictError", "HTTPForbiddenError",
                   "HTTPStatusError"} :
        /\ calls' = Append(Append(calls,
                        NodeCall("create_folder", node_info.id, 0, FALSE)),
                        LogoutCall)
        /\ success_msg' = (res = "ok")
        /\ status' = IF res = "ok" THEN "exit0" ELSE "exit1"
    /\ session' = "closed"
    /\ pc' = "exit"
    /\ UNCHANGED <<argVars, parent_id, total, items, pending, show_all,
                   printed, node_info, is_folder, is_file_path,
                   resolution_strategy, distrib_node_id, structVars, bulkVars,
                   keyVars>>

\* the errors whose handler ends the run without logging out
ConnectErrors == {"ConnectTimeout", "ConnectError"}

\* lines 361-405: create_room with inherit_perms=True; the two connection
\* errors exit with 1 without logout
CreateRoom ==
    /\ pc = "create"
    /\ cmd = "mkroom"
    /\ \E res \in {"ok", "HTTPConflictError", "HTTPForbiddenError",
                   "HTTPStatusError"} \cup ConnectErrors :
        /\ calls' = IF res \in ConnectErrors
                       THEN Append(calls,
                                NodeCall("create_room", node_info.id, 0, TRUE))
                       ELSE Append(Append(calls,
                                NodeCall("create_room", node_info.id, 0, TRUE)),
                                LogoutCall)
        /\ session' = IF res \in ConnectErrors THEN session ELSE "closed"
        /\ success_msg' = (res = "ok")
        /\ status' = IF res = "ok" THEN "exit0" ELSE "exit1"
    /\ pc' = "exit"
    /\ UNCHANGED <<argVars, parent_id, total, items, pending, show_all,
                   printed, node_info, is_folder, is_file_path,
                   resolution_strategy, distrib_node_id, structVars, bulkVars,
                   keyVars>>

\* NeedsRecursive with the folder check of lines 465-472 left out
NeedsRecursiveRoomOnly(n) == n.type = "room"

\* lines 457, 465: the node types rm deletes only with -r
NeedsRecursive(n) == n.type = "room" \/ n.type = "folder"

\* lines 446-472: resolve the node; an unresolved path, or a room or folder
\* without -r, logs out and exits with 1
ResolveNodeToDelete ==
    /\ pc = "resolve"
    /\ cmd = "rm"
    /\ \E n \in TargetNodes \cup {None} :
        /\ node_info' = n
        /\ IF n = None \/ (NeedsRecursive(n) /\ ~recursive)
              THEN /\ calls' = Append(calls, LogoutCall)
                   /\ session' = "closed"
                   /\ pc' = "exit"
                   /\ status' = "exit1"
              ELSE /\ pc' = "delete"
                   /\ UNCHANGED <<calls, session, status>>
    /\ UNCHANGED <<argVars, nodeVars, is_folder, is_file_path,
                   resolution_strategy, distrib_node_id, structVars, bulkVars,
                   keyVars>>

\* lines 473-506: delete_node; the two connection errors exit with 1
\* without logout
DeleteNode ==
    /\ pc = "delete"
    /\ cmd = "rm"
    /\ \E res \in {"ok", "HTTPForbiddenError", "HTTPStatusError"}
                  \cup ConnectErrors :
        /\ calls' = IF res \in ConnectErrors
                       THEN Append(calls,
                                NodeCall("delete_node", node_info.id, 0, FALSE))
                       ELSE Append(Append(calls,
                                NodeCall("delete_node", node_info.id, 0, FALSE)),
                                LogoutCall)
        /\ session' = IF res \in ConnectErrors THEN session ELSE "closed"
        /\ success_msg' = (res = "ok")
        /\ status' = IF res = "ok" THEN "exit0" ELSE "exit1"
    /\ pc' = "exit"
    /\ UNCHANGED <<argVars, parent_id, total, items, pending, show_all,
                   printed, node_info, is_folder, is_file_path,
                   resolution_strategy, distrib_node_id, structVars, bulkVars,
                   keyVars>>

\* ----------------------------------------------------------------- ls
\* lines 576, 615: the page of children get_nodes returns at an offset of
\* an unchanged listing of total children (ids 1..total)
Page(offset, t) ==
    [i \in 1..(IF t - offset > PageSize THEN PageSize
               ELSE IF t - offset > 0 THEN t - offset ELSE 0) |-> offset + i]

\* Range starting at the first page again
RangeFromZero(start, stop, step) ==
    [i \in 1..(IF stop > 0 THEN (stop + step - 1) \div step ELSE 0) |->
        (i - 1) * step]

\* line 613: range(start, stop, step) as the list of its values
Range(start, stop, step) ==
    [i \in 1..(IF stop > start THEN (stop - start + step - 1) \div step
               ELSE 0) |-> start + (i - 1) * step]

\* lines 551-574: the root is listed with parent_id 0; an unresolved path
\* or a file logs out and exits with 1
ResolveContainer ==
    /\ pc = "resolve"
    /\ cmd = "ls"
    /\ \E n \in TargetNodes \cup {None}, root \in BOOLEAN :
        /\ root => n = None
        /\ node_info' = n
        /\ parent_id' = IF n # None THEN n.id ELSE 0
        /\ IF (n = None /\ ~root) \/ (n # None /\ n.type = "file")
              THEN /\ calls' = Append(calls, LogoutCall)
                   /\ session' = "closed"
                   /\ pc' = "exit"
                   /\ status' = "exit1"
              ELSE /\ pc' = "list"
                   /\ UNCHANGED <<calls, session, status>>
    /\ UNCHANGED <<argVars, total, items, pending, show_all, printed,
                   success_msg, is_folder, is_file_path, resolution_strategy,
                   distrib_node_id, structVars, bulkVars, keyVars>>

\* lines 575-604: the first page; more than 500 children ask the user
FirstPage ==
    /\ pc = "list"
    /\ \E t \in Totals, res \in {"ok", "HTTPForbiddenError", "HTTPStatusError"}
                                \cup ConnectErrors :
        /\ calls' = IF res \in {"HTTPForbiddenError", "HTTPStatusError"}
                       THEN Append(Append(calls,
                                NodeCall("get_nodes", parent_id, 0, FALSE)),
                                LogoutCall)
                       ELSE Append(calls,
                                NodeCall("get_nodes", parent_id, 0, FALSE))
        /\ session' = IF res \in {"HTTPForbiddenError", "HTTPStatusError"}
                         THEN "closed" ELSE session
        /\ IF res = "ok"
              THEN /\ total' = t
                   /\ items' = Page(0, t)
                   /\ pc' = IF t > PageSize THEN "confirm" ELSE "print"
                   /\ UNCHANGED status
              ELSE /\ pc' = "exit"
                   /\ status' = "exit1"
                   /\ UNCHANGED <<total, items>>
    /\ UNCHANGED <<argVars, parent_id, pending, show_all, printed,
                   success_msg, node_info, is_folder, is_file_path,
                   resolution_strategy, distrib_node_id, structVars, bulkVars,
                   keyVars>>

\* lines 605-613: typer.confirm; a refusal raises typer.Abort, which ends
\* the run with status 1 and without logout
ConfirmShowAll ==
    /\ pc = "confirm"
    /\ \E answer \in BOOLEAN :
        /\ show_all' = IF answer THEN "yes" ELSE "no"
        /\ IF answer
              THEN /\ pending' = Range(PageSize, total, PageSize)
                   /\ pc' = "page"
                   /\ UNCHANGED status
              ELSE /\ pc' = "exit"
                   /\ status' = "exit1"
                   /\ UNCHANGED pending
    /\ UNCHANGED <<argVars, parent_id, total, items, printed, success_msg,
                   session, node_info, is_folder, is_file_path,
                   resolution_strategy, distrib_node_id, calls, structVars,
                   bulkVars, keyVars>>

\* lines 613-644: one iteration of the loop over the further offsets
NextPage ==
    /\ pc = "page"
    /\ pending # <<>>
    /\ \E res \in {"ok", "HTTPForbiddenError", "HTTPStatusError"}
                  \cup ConnectErrors :
        /\ calls' = IF res \in {"HTTPForbiddenError", "HTTPStatusError"}
                       THEN Append(Append(calls,
                                NodeCall("get_nodes", parent_id, Head(pending),
                                         FALSE)),
                                LogoutCall)
                       ELSE Append(calls,
                                NodeCall("get_nodes", parent_id, Head(pending),
                                         FALSE))
        /\ session' = IF res \in {"HTTPForbiddenError", "HTTPStatusError"}
                         THEN "closed" ELSE session
        /\ IF res = "ok"
              THEN /\ items' = items \o Page(Head(pending), total)
                   /\ pending' = Tail(pending)
                   /\ pc' = IF Tail(pending) = <<>> THEN "print" ELSE "page"
                   /\ UNCHANGED status
              ELSE /\ pc' = "exit"
                   /\ status' = "exit1"
                   /\ UNCHANGED <<items, pending>>
    /\ UNCHANGED <<argVars, parent_id, total, show_all, printed, success_msg,
                   node_info, is_folder, is_file_path, resolution_strategy,
                   distrib_node_id, structVars, bulkVars, keyVars>>

\* lines 646-659: print every collected node, then logout
PrintNodes ==
    /\ pc = "print"
    /\ printed' = items
    /\ calls' = Append(calls, LogoutCall)
    /\ session' = "closed"
    /\ pc' = "exit"
    /\ status' = "exit0"
    /\ UNCHANGED <<argVars, parent_id, total, items, pending, show_all,
                   success_msg, node_info, is_folder, is_file_path,
                   resolution_strategy, distrib_node_id, structVars, bulkVars,
                   keyVars>>

\* ----------------------------------------------------------- download
\* lines 701-713: an unresolved path or a node that is no file exits with
\* 1; neither branch logs out
ResolveFile ==
    /\ pc = "resolve"
    /\ cmd = "download"
    /\ \E n \in TargetNodes \cup {None} :
        /\ node_info' = n
        /\ IF n = None \/ n.type # "file"
              THEN /\ pc' = "exit"
                   /\ status' = "exit1"
              ELSE /\ pc' = IF n.isEncrypted THEN "keypair" ELSE "download"
                   /\ UNCHANGED status
    /\ UNCHANGED <<argVars, nodeVars, session, is_folder, is_file_path,
                   resolution_strategy, distrib_node_id, calls, structVars,
                   bulkVars, keyVars>>

\* lines 715-720: init_keypair for an encrypted file
InitDownloadKeypair ==
    /\ pc = "keypair"
    /\ calls' = Append(calls, NodeCall("init_keypair", node_info.id, 0, FALSE))
    /\ pc' = "download"
    /\ UNCHANGED <<argVars, nodeVars, status, session, node_info, is_folder,
                   is_file_path, resolution_strategy, distrib_node_id,
                   structVars, bulkVars, keyVars>>

\* the errors of dracoon.download whose handler logs out (lines 740-762)
DownloadErrorsWithLogout ==
    {"InvalidFileError", "HTTPStatusError", "PermissionError"}

\* the errors of dracoon.download whose handler does not (lines 730-776)
DownloadErrorsWithoutLogout ==
    {"UnboundLocalError", "InvalidPathError", "FileConflictError"}
        \cup ConnectErrors

\* lines 722-782: the download; the success path echoes and returns
\* without logout
DownloadFile ==
    /\ pc = "download"
    /\ \E res \in {"ok"} \cup DownloadErrorsWithLogout
                  \cup DownloadErrorsWithoutLogout :
        /\ calls' = IF res \in DownloadErrorsWithLogout
                       THEN Append(Append(calls,
                                NodeCall("download", node_info.id, 0, FALSE)),
                                LogoutCall)
                       ELSE Append(calls,
                                NodeCall("download", node_info.id, 0, FALSE))
        /\ session' = IF res \in DownloadErrorsWithLogout
                         THEN "closed" ELSE session
        /\ success_msg' = (res = "ok")
        /\ status' = IF res = "ok" THEN "exit0" ELSE "exit1"
    /\ pc' = "exit"
    /\ UNCHANGED <<argVars, parent_id, total, items, pending, show_all,
                   printed, node_info, is_folder, is_file_path,
                   resolution_strategy, distrib_node_id, structVars, bulkVars,
                   keyVars>>

\* ------------------------------------------------------------ specification
Next ==
    \/ InitDracoon
    \/ GetNodeFromPath
    \/ InitKeypair
    \/ ProbeSource
    \/ ResolveStrategy
    \/ FolderWithoutRecursive
    \/ CallCreateFolderStruct
    \/ \E d \in Dirs : ReplicateDir(d)
    \/ CreateFolderStructReturn
    \/ CallBulkUpload
    \/ \E f \in Files : Dispatch(f)
    \/ \E f \in Files : Complete(f)
    \/ \E f \in Files : Fail(f)
    \/ EmitBatchResult
    \/ FolderUploaded
    \/ UploadFile
    \/ InvalidSource
    \/ AssignDistribNode
    \/ SkipDistribution
    \/ DistribNodeUnbound
    \/ CallDistributeMissingKeys
    \/ \E u \in Users : EquipUser(u)
    \/ \E u \in Users : FailUser(u)
    \/ KeyDistributionReturn
    \/ KeysDistributed
    \/ Logout
    \/ OpenSession
    \/ PathParseError
    \/ ResolveParent
    \/ CreateFolder
    \/ CreateRoom
    \/ ResolveNodeToDelete
    \/ DeleteNode
    \/ ResolveContainer
    \/ FirstPage
    \/ ConfirmShowAll
    \/ NextPage
    \/ PrintNodes
    \/ ResolveFile
    \/ InitDownloadKeypair
    \/ DownloadFile

Spec == Init /\ [][Next]_vars

\* the asyncio event loop runs every coroutine that can continue
FairSpec == Spec /\ WF_vars(Next)

\* ------------------------------------------------------------------ claims
TransferOps == {"create_folder_struct", "bulk_upload", "upload"}

CallsOf(op) == {i \in 1..Len(calls) : calls[i].op = op}

\* tasks that have been handed to uploadFile
Dispatched == {f \in Files : taskState[f] \in {"InFlight", "Completed"}}

\* C1: in a recursive folder upload bulk_upload starts only after
\* create_folder_struct has completed, and the node every file task is
\* uploaded into exists remotely when the task is queued and dispatched.
C1_TransferAfterReplication ==
    /\ bulkPhase \in {"running", "done"} => structPhase = "done"
    /\ \A f \in Files :
          taskState[f] \in {"Queued", "InFlight", "Completed", "Failed"} =>
              /\ structPhase = "done"
              /\ ParentExists(FileDir(f))
              /\ \A d \in Dirs : pathMap[d] # "pending"

\* C1 witness: a file is in flight into the deepest directory, and every
\* directory of the chain was created by this run.
C1_Witness ==
    /\ createdDirs = Dirs
    /\ \E f \in Files : FileDir(f) = NumDirs /\ taskState[f] = "InFlight"

\* C2: key distribution is only invoked for an encrypted destination, with
\* the node's own id for a Room and its authParentId for a Folder, and for
\* every encrypted destination reaching line 229 the room id has been
\* assigned by one of the two branches.
C2_RoomIdWellDefined ==
    /\ \A i \in CallsOf("distribute_missing_keys") :
          /\ node_info.isEncrypted
          /\ node_info.type \in {"room", "folder"}
          /\ calls[i].room = IF node_info.type = "room"
                                THEN <<node_info.id>>
                                ELSE <<node_info.authParentId>>
    /\ (pc = "distribute" /\ node_info.isEncrypted) => distrib_node_id # <<>>

\* C3: key distribution is invoked at most once, only after the transfer
\* step of the run has completed, and never in a run without a transfer.
C3_KeysOnlyAfterTransfer ==
    /\ Cardinality(CallsOf("distribute_missing_keys")) <= 1
    /\ keyPhase # "idle" =>
          /\ structPhase \notin {"running", "done"}
          /\ bulkPhase \notin {"running", "done"}
    /\ \A i \in CallsOf("distribute_missing_keys") :
          \E j \in 1..(i - 1) : calls[j].op \in {"bulk_upload", "upload"}

\* C4: at most `limit` uploadFile calls are in flight, the limit being the
\* one the velocity level maps to, and the velocity handed to bulk_upload is
\* the command line's value, one of the three levels 1, 2, 3.
C4_VelocityBound ==
    /\ bulkPhase = "running" => Cardinality(InFlight) <= limit
    /\ \A i \in CallsOf("bulk_upload") :
          /\ calls[i].velocity = velocity
          /\ calls[i].velocity \in Levels

\* C5 (state part): the BatchResult is emitted at most once, only when every
\* task has resolved, and its three counts add up to the number of tasks.
C5_ResultComplete ==
    /\ Len(batchResults) <= 1
    /\ bulkPhase = "running" => batchResults = <<>>
    /\ bulkPhase = "done" => Len(batchResults) = 1
    /\ Len(batchResults) = 1 =>
          /\ \A f \in Files : Resolved(f)
          /\ batchResults[1].succeeded = Count("Completed")
          /\ batchResults[1].failed = Count("Failed")
          /\ batchResults[1].skipped = Count("Skipped")
          /\ batchResults[1].succeeded + batchResults[1].failed
                + batchResults[1].skipped = NumFiles

\* C5 (step part): a step in which a task fails changes no other task and
\* does not end the batch.
C5_FailureIsLocal ==
    \A f \in Files :
        (taskState[f] # "Failed" /\ taskState'[f] = "Failed") =>
            /\ bulkPhase' = bulkPhase
            /\ batchResults' = batchResults
            /\ \A g \in Files \ {f} : taskState'[g] = taskState[g]

\* C5 (step part): a task in flight stays in flight until it is Completed
\* or Failed.
C5_InFlightResolves ==
    \A f \in Files :
        taskState[f] = "InFlight" =>
            taskState'[f] \in {"InFlight", "Completed", "Failed"}

\* C5: in a bulk upload one task's failure aborts neither the batch nor
\* another task; every dispatched task eventually reaches Completed or
\* Failed (a running batch eventually emits its result, which needs every
\* task resolved, and a task in flight resolves only to Completed or
\* Failed); the BatchResult is emitted exactly once, after every task has
\* resolved, with succeeded + failed + skipped equal to the number of tasks.
C5_BatchResolves ==
    /\ []C5_ResultComplete
    /\ [][C5_FailureIsLocal /\ C5_InFlightResolves]_vars
    /\ (bulkPhase = "running") ~> (bulkPhase = "done")

\* C5 witness: the result of a batch in which one task failed and another
\* completed has been emitted.
C5_Witness ==
    /\ bulkPhase = "done"
    /\ Len(batchResults) = 1
    /\ batchResults[1].failed >= 1
    /\ batchResults[1].succeeded >= 1
    /\ reserved # {}

\* C6: under autorename no two tasks of the batch that target the same
\* parent are sent under the same final name, whatever the interleaving, and
\* a node that already held a name is left untouched.
C6_AutorenameUnique ==
    (resolution_strategy = "autorename" /\ bulkPhase \in {"running", "done"}) =>
        /\ \A f, g \in Dispatched :
              (f # g /\ FileDir(f) = FileDir(g)) => finalName[f] # finalName[g]
        /\ overwritten = {}
        /\ preExisting \subseteq remote
        /\ \A f \in Dispatched : \A t \in {"file", "folder"} :
              <<FileDir(f), finalName[f], t>> \notin preExisting

\* C6 witness: "a.txt" exists remotely; the two same-parent tasks "a.txt" and
\* "a (1).txt" are in flight together under the names "a (2).txt" and
\* "a (1).txt".
C6_Witness ==
    /\ resolution_strategy = "autorename"
    /\ <<0, 0, "file">> \in preExisting
    /\ taskState[1] = "InFlight" /\ taskState[2] = "InFlight"
    /\ finalName[1] = 2 /\ finalName[2] = 1

\* C7 (state part): every missing user ends in exactly one of the two lists,
\* users holding a key are in neither, and the run goes on to logout.
C7_ResultPartition ==
    /\ equipped \cap failedUsers = {}
    /\ (equipped \cup failedUsers) \cap hasKey = {}
    /\ keyPhase = "done" =>
          /\ equipped \cup failedUsers = Users \ hasKey
          /\ status \in {"running", "exit0"}
          /\ pc \in {"await_keys", "logout", "exit"}
          /\ pc = "exit" => (session = "closed" /\ status = "exit0")

\* C7 (step part): an attempt records one user's outcome and leaves every
\* other user's outcome, and the run of the engine, as it was.
C7_AttemptIsLocal ==
    /\ equipped \subseteq equipped'
    /\ failedUsers \subseteq failedUsers'
    /\ Cardinality((equipped' \cup failedUsers') \ (equipped \cup failedUsers)) <= 1
    /\ (failedUsers' # failedUsers) => keyPhase' = keyPhase

\* C7: key distribution attempts every member lacking a key independently:
\* a failure for one user neither blocks nor undoes another user's attempt,
\* every missing user ends in exactly one list of the result, key holders
\* in neither, and no aggregate failure is raised (the run logs out).
C7_KeyDistributionIndependent ==
    /\ []C7_ResultPartition
    /\ [][keyPhase = "running" => C7_AttemptIsLocal]_vars

\* C7 witness: the run has ended after a distribution in which one user was
\* equipped and another one failed.
C7_Witness ==
    /\ keyPhase = "done"
    /\ pc = "exit"
    /\ equipped # {}
    /\ failedUsers # {}

\* C8: a target path that resolves to no node ends the run with exit status
\* 1 before any keypair, folder, transfer or key distribution call.
C8_UnresolvedTargetFatal ==
    (cmd = "upload" /\ node_info = None) =>
        /\ pc = "exit"
        /\ status = "exit1"
        /\ calls = <<>>
        /\ structPhase = "idle" /\ bulkPhase = "idle" /\ keyPhase = "idle"

\* C8 witness: the run has ended on an unresolved target path.
C8_Witness ==
    cmd = "upload" /\ node_info = None /\ pc = "exit" /\ session = "open"

\* the source path has been probed and is neither a file nor a directory
SourceInvalid ==
    /\ cmd = "upload"
    /\ pc \notin {"init", "get_node", "init_keypair", "probe"}
    /\ node_info \in TargetNodes
    /\ ~is_folder /\ ~is_file_path

\* C9: a source that is neither file nor directory ends the run with a
\* non-zero exit and without any folder creation, transfer or key
\* distribution call.
C9_InvalidSourceFatal ==
    SourceInvalid =>
        /\ Ops(calls) \cap (TransferOps \cup {"distribute_missing_keys"}) = {}
        /\ keyPhase = "idle"
        /\ pc = "exit" => status \in {"exit1", "exit2", "crash"}

\* the strategy the flags stand for, as the option table states it
FlagStrategy ==
    CASE ~overwrite /\ ~auto_rename -> "fail"
      [] overwrite /\ ~auto_rename -> "overwrite"
      [] ~overwrite /\ auto_rename -> "autorename"
      [] OTHER -> "none"

\* C10: every transfer is started with the one strategy the flags select
\* (fail, overwrite, autorename); with both flags the run exits with status
\* 1 and makes no folder creation, transfer or key distribution call.
C10_StrategyFromFlags ==
    /\ \A i \in 1..Len(calls) :
          calls[i].op \in {"bulk_upload", "upload"} =>
              /\ calls[i].strategy = FlagStrategy
              /\ calls[i].strategy \in {"fail", "overwrite", "autorename"}
    /\ bulkPhase \in {"running", "done"} => resolution_strategy = FlagStrategy
    /\ (overwrite /\ auto_rename) =>
          /\ Ops(calls) \cap (TransferOps \cup {"distribute_missing_keys"}) = {}
          /\ structPhase = "idle" /\ bulkPhase = "idle" /\ keyPhase = "idle"
          /\ pc \in {"init", "get_node", "init_keypair", "probe", "strategy", "exit"}
          /\ (pc = "exit" /\ node_info # None) => status = "exit1"

\* C10 witness: a bulk upload runs under autorename, selected by
\* --auto-rename alone.
C10_Witness ==
    /\ auto_rename /\ ~overwrite
    /\ bulkPhase = "running"
    /\ \E i \in CallsOf("bulk_upload") : calls[i].strategy = "autorename"

\* C11: rm issues delete_node only for a path that resolved to a node, and
\* for a room or folder only with -r; an unresolved path, or a room or
\* folder without -r, makes no delete call and exits with status 1; a file
\* is deleted with or without -r.
C11_DeleteOnlyWhenAllowed ==
    cmd = "rm" =>
        /\ \A i \in CallsOf("delete_node") :
              /\ node_info \in TargetNodes
              /\ calls[i].node = node_info.id
              /\ node_info.type \in {"room", "folder"} => recursive
        /\ (pc = "exit" /\ (node_info = None
                \/ (node_info.type \in {"room", "folder"} /\ ~recursive))) =>
              /\ CallsOf("delete_node") = {}
              /\ status = "exit1"
        /\ (pc = "exit" /\ node_info.type = "file") =>
              Cardinality(CallsOf("delete_node")) = 1

\* C11 witness: a folder targeted without -r is refused with status 1 and
\* no delete call.
C11_Witness ==
    /\ cmd = "rm" /\ ~recursive
    /\ node_info.type = "folder"
    /\ pc = "exit" /\ status = "exit1"
    /\ CallsOf("delete_node") = {}

CreateCalls ==
    {i \in 1..Len(calls) : calls[i].op \in {"create_folder", "create_room"}}

\* C12: mkdir and mkroom issue their create call only after the parent path
\* resolved to an existing node, with that node's id as parent_id; mkroom
\* issues create_room only under a room and always with inherit_perms
\* true; when the parent does not resolve (or, for mkroom, is not a room)
\* no create call is made, no success message is printed and the run ends
\* with status 1. A path without a parent ends in PathParseError before
\* any remote call.
C12_CreateUnderResolvedParent ==
    cmd \in {"mkdir", "mkroom"} =>
        /\ \A i \in CreateCalls :
              /\ node_info \in TargetNodes
              /\ calls[i].node = node_info.id
              /\ calls[i].op =
                    (IF cmd = "mkdir" THEN "create_folder" ELSE "create_room")
              /\ calls[i].op = "create_room" =>
                    node_info.type = "room" /\ calls[i].inherit_perms
        /\ (pc = "exit" /\ (node_info = None
                \/ (cmd = "mkroom" /\ node_info \in TargetNodes
                        /\ node_info.type # "room"))) =>
              CreateCalls = {} /\ ~success_msg /\ status = "exit1"
        /\ (pc = "exit" /\ node_info = Unresolved) =>
              CreateCalls = {} /\ ~success_msg /\ status = "crash"
        /\ success_msg => CreateCalls # {} /\ status = "exit0"

\* C12 witness: mkroom under a folder is refused with status 1, no create
\* call and no success message.
C12_Witness ==
    /\ cmd = "mkroom"
    /\ node_info.type = "folder"
    /\ pc = "exit" /\ status = "exit1"
    /\ CreateCalls = {} /\ ~success_msg

\* the get_nodes calls of the run, in the order they were made
GetNodesCalls == SelectSeq(calls, LAMBDA c : c.op = "get_nodes")

\* the number of pages of a listing of t children
PagesOf(t) == IF t > PageSize THEN (t + PageSize - 1) \div PageSize ELSE 1

C14_LogoutOnEveryExit ==
    /\ (pc = "exit" /\ session # "none") =>
          Cardinality(CallsOf("logout")) = 1
    /\ \A i \in CallsOf("logout") : i = Len(calls)

====
